---- MODULE Spec2Model ----
(***************************************************************************)
(* Model of the EDA pipeline (src/eda_pipeline.py) and of its statistical  *)
(* helpers (src/utils.py).                                                  *)
(*                                                                          *)
(* Numbers are exact rationals with the IEEE special values the numeric     *)
(* library produces (not-a-number, infinities).  Rounding is not modelled:  *)
(* the inputs are small integers, on which every operation below is exact   *)
(* in double precision except the square root, which is kept symbolic.      *)
(***************************************************************************)
EXTENDS Integers, Sequences, FiniteSets, TLC

VARIABLES
    pc,         \* position of the run: "new", a step of RunOrder, "done", "aborted", "none"
    config,     \* self.config, or NoConfig before the constructor has loaded it
    csv,        \* the table in the file at config["data_path"]
    df,         \* self.df: None, or the sequence of columns
    num_cols,   \* self.num_cols (Unset until classify_columns has run)
    cat_cols,   \* self.cat_cols (Unset until classify_columns has run)
    files,      \* files written under report_path in this run: name -> content
    log,        \* messages handed to the logger, in order
    started,    \* steps of run() entered, in order
    returned,   \* steps of run() that returned normally, in order
    call        \* a direct call of a function of utils.py: function, arguments, result

vars == <<pc, config, csv, df, num_cols, cat_cols, files, log, started, returned, call>>

-----------------------------------------------------------------------------
(* Bounds of the model *)

\* longest series handed to detect_outliers in a direct call
MaxSeries == 5
\* largest value in a series or a sample of a direct call
MaxVal == 2
\* largest sample handed to cohens_d in a direct call
MaxGroup == 3
\* largest value in a sample handed to cohens_d in a direct call
MaxSample == 1
\* most columns of a table read from a CSV file
MaxCols == 3
\* most columns of a table handed to classify_columns in a direct call
MaxClassifyCols == 4

-----------------------------------------------------------------------------
(* Values of a cell and of a floating-point result *)

NaN == [k |-> "nan"]
Num(v) == [k |-> "num", v |-> v]
Str(s) == [k |-> "str", v |-> s]
IsNaN(x) == x.k = "nan"

Abs(i) == IF i < 0 THEN -i ELSE i
Sgn(i) == IF i < 0 THEN -1 ELSE IF i > 0 THEN 1 ELSE 0

RECURSIVE Gcd(_, _)
Gcd(a, b) == IF b = 0 THEN a ELSE Gcd(b, a % b)

\* the rational n/d (d > 0), in lowest terms
Rat(n, d) ==
    LET g == Gcd(Abs(n), d)
    IN  [k |-> "fin", n |-> n \div g, d |-> d \div g]
IntVal(i) == Rat(i, 1)
Inf(s) == [k |-> "inf", s |-> s]
\* the value num / sqrt(rad) with rad > 0: a finite number whose root is kept symbolic
Surd(num, rad) == [k |-> "surd", num |-> num, rad |-> rad]
\* the square root of the rational rad >= 0
Root(rad) == [k |-> "sqrt", rad |-> rad]
Raised(exc) == [k |-> "raise", exc |-> exc]

IsZero(x) == (x.k = "fin" /\ x.n = 0) \/ (x.k = "sqrt" /\ x.rad.n = 0)
\* sign of a non-NaN value
SignOf(x) ==
    CASE x.k = "fin" -> Sgn(x.n)
      [] x.k = "inf" -> x.s
      [] x.k = "sqrt" -> Sgn(x.rad.n)
      [] x.k = "surd" -> Sgn(x.num.n)
IsFinite(x) == x.k \in {"fin", "sqrt", "surd"}

FNeg(a) ==
    CASE a.k = "nan" -> NaN
      [] a.k = "inf" -> Inf(-a.s)
      [] a.k = "fin" -> Rat(-a.n, a.d)

FAdd(a, b) ==
    CASE a.k = "nan" \/ b.k = "nan" -> NaN
      [] a.k = "inf" /\ b.k = "inf" -> IF a.s = b.s THEN a ELSE NaN
      [] a.k = "inf" -> a
      [] b.k = "inf" -> b
      [] OTHER -> Rat(a.n * b.d + b.n * a.d, a.d * b.d)

FSub(a, b) == FAdd(a, FNeg(b))

FMul(a, b) ==
    CASE a.k = "nan" \/ b.k = "nan" -> NaN
      [] a.k = "inf" \/ b.k = "inf" ->
            IF IsZero(a) \/ IsZero(b) THEN NaN ELSE Inf(SignOf(a) * SignOf(b))
      [] OTHER -> Rat(a.n * b.n, a.d * b.d)

\* np.sqrt
FSqrt(a) ==
    CASE a.k = "nan" -> NaN
      [] a.k = "inf" -> IF a.s > 0 THEN a ELSE NaN
      [] a.k = "fin" -> IF a.n < 0 THEN NaN ELSE Root(a)

\* x ** 2
FSquare(a) == IF a.k = "sqrt" THEN a.rad ELSE FMul(a, a)

\* a < b; False whenever an operand is not-a-number
FLess(a, b) ==
    CASE a.k = "nan" \/ b.k = "nan" -> FALSE
      [] a.k = "inf" /\ b.k = "inf" -> a.s < b.s
      [] a.k = "inf" -> a.s < 0
      [] b.k = "inf" -> b.s > 0
      [] OTHER -> a.n * b.d < b.n * a.d

\* a / b for a divisor that is neither not-a-number nor zero
Quotient(a, b) ==
    CASE a.k = "nan" -> NaN
      [] b.k = "inf" -> IF a.k = "inf" THEN NaN ELSE IntVal(0)
      [] a.k = "inf" -> Inf(a.s * SignOf(b))
      [] b.k = "sqrt" -> Surd(a, b.rad)
      [] OTHER -> Rat(a.n * b.d * Sgn(b.n), a.d * Abs(b.n))

\* the division of Python's own float: a zero divisor raises
PyFloatDivide(a, b) ==
    CASE IsZero(b) -> Raised("ZeroDivisionError")
      [] b.k = "nan" -> NaN
      [] OTHER -> Quotient(a, b)

\* the division of numpy's float64 scalars: never raises, x/0 is nan or +-inf
TrueDivide(a, b) ==
    CASE b.k = "nan" -> NaN
      [] IsZero(b) -> IF a.k = "nan" \/ IsZero(a) THEN NaN ELSE Inf(SignOf(a))
      [] OTHER -> Quotient(a, b)

-----------------------------------------------------------------------------
(* Sequences *)

RECURSIVE SumSeq(_)
SumSeq(s) == IF s = <<>> THEN 0 ELSE Head(s) + SumSeq(Tail(s))

RECURSIVE SumSq(_)
SumSq(s) == IF s = <<>> THEN 0 ELSE Head(s) * Head(s) + SumSq(Tail(s))

RECURSIVE Insert(_, _)
Insert(x, s) ==
    IF s = <<>> THEN <<x>>
    ELSE IF x <= Head(s) THEN <<x>> \o s
    ELSE <<Head(s)>> \o Insert(x, Tail(s))

RECURSIVE Sorted(_)
Sorted(s) == IF s = <<>> THEN <<>> ELSE Insert(Head(s), Sorted(Tail(s)))

Range(s) == {s[i] : i \in DOMAIN s}
IsMember(x, s) == \E i \in DOMAIN s : s[i] = x

\* sequences over S of length at most n
SeqsUpTo(S, n) == UNION {[1..m -> S] : m \in 0..n}

-----------------------------------------------------------------------------
(* Tables: a DataFrame is the sequence of its columns, each with a name, a  *)
(* dtype and one cell per row; column names are unique (read_csv makes them *)
(* so).                                                                      *)

Column(name, dtype, values) == [name |-> name, dtype |-> dtype, values |-> values]
Columns(table) == [i \in DOMAIN table |-> table[i].name]
HasColumn(table, name) == \E i \in DOMAIN table : table[i].name = name
GetColumn(table, name) == table[CHOOSE i \in DOMAIN table : table[i].name = name]
NRows(table) == IF table = <<>> THEN 0 ELSE Len(table[1].values)

\* issubclass(dtype.type, np.number)
IsNumberDtype(dtype) == dtype \in {"int64", "float64"}
\* the dtypes DataFrame.corr(numeric_only=True) keeps
IsNumericOnlyDtype(dtype) == dtype \in {"int64", "float64", "bool"}

\* df.select_dtypes(include=np.number).columns.tolist()
SelectNumber(table) ==
    LET keep(col) == IsNumberDtype(col.dtype)
    IN  Columns(SelectSeq(table, keep))
\* the mutant: everything that is not a number is categorical
SelectNotNumber(table) ==
    LET keep(col) == ~IsNumberDtype(col.dtype)
    IN  Columns(SelectSeq(table, keep))
\* df.select_dtypes(include="object").columns.tolist()
SelectObject(table) ==
    LET keep(col) == col.dtype = "object"
    IN  Columns(SelectSeq(table, keep))

-----------------------------------------------------------------------------
(* utils.py *)

classify_columns(table) == <<SelectNumber(table), SelectObject(table)>>

\* a cell of a numeric column as a float
CellFloat(c) == IF IsNaN(c) THEN NaN ELSE IntVal(c.v)

\* the values of the cells that are not missing (Series.dropna)
RECURSIVE DropNa(_)
DropNa(cells) ==
    IF cells = <<>> THEN <<>>
    ELSE IF IsNaN(Head(cells)) THEN DropNa(Tail(cells))
    ELSE <<Head(cells).v>> \o DropNa(Tail(cells))

\* Series.quantile(qn/qd): missing values skipped, linear interpolation between
\* the two order statistics around position (n-1)*q; not-a-number when nothing is left
Quantile(series, qn, qd) ==
    LET xs == Sorted(DropNa(series))
        n == Len(xs)
        h == (n - 1) * qn
        lo == h \div qd
        r == h % qd
        hi == IF lo + 2 <= n THEN lo + 2 ELSE n
    IN  IF n = 0 THEN NaN
        ELSE Rat(qd * xs[lo + 1] + r * (xs[hi] - xs[lo + 1]), qd)

\* the mutant: values on the fence count as outside
OutsideFenceInclusive(x, lower, upper) == ~FLess(lower, x) \/ ~FLess(x, upper)
\* (series < lower) | (series > upper), for one element
OutsideFence(x, lower, upper) == FLess(x, lower) \/ FLess(upper, x)

detect_outliers(series) ==
    LET q1 == Quantile(series, 1, 4)
        q3 == Quantile(series, 3, 4)
        iqr == FSub(q3, q1)
        lower == FSub(q1, FMul(Rat(3, 2), iqr))
        upper == FAdd(q3, FMul(Rat(3, 2), iqr))
    IN  Cardinality({i \in DOMAIN series : OutsideFence(CellFloat(series[i]), lower, upper)})

\* np.mean of a sample: not-a-number for an empty one
NpMean(g) == IF Len(g) = 0 THEN NaN ELSE Rat(SumSeq(g), Len(g))
\* np.std(g, ddof=1): not-a-number for fewer than two values
NpStd(g) ==
    LET n == Len(g)
    IN  IF n <= 1 THEN NaN
        ELSE FSqrt(Rat(n * SumSq(g) - SumSeq(g) * SumSeq(g), n * (n - 1)))

cohens_d(group1, group2) ==
    LET mean1 == NpMean(group1)
        mean2 == NpMean(group2)
        std1 == NpStd(group1)
        std2 == NpStd(group2)
        n1 == Len(group1)
        n2 == Len(group2)
        pooled_var ==
            TrueDivide(FAdd(FMul(IntVal(n1 - 1), FSquare(std1)),
                            FMul(IntVal(n2 - 1), FSquare(std2))),
                       IntVal(n1 + n2 - 2))
    IN  IF pooled_var.k = "raise" THEN pooled_var
        ELSE TrueDivide(FSub(mean1, mean2), FSqrt(pooled_var))

-----------------------------------------------------------------------------
(* The pipeline's environment: configurations and CSV files *)

None == [k |-> "None"]
Unset == [k |-> "unset"]
NoFile == [k |-> "no such file"]
\* a readable CSV file holding a table, a loaded DataFrame, a list of column names
CsvFile(table) == [k |-> "file", table |-> table]
Frame(table) == [k |-> "DataFrame", cols |-> table]
List(items) == [k |-> "list", items |-> items]

Flags == [distribution : BOOLEAN, target_analysis : BOOLEAN, correlation : BOOLEAN]

\* the configurations; the key id_columns is optional
Configs ==
    [report_path : {"reports/"}, data_path : {"data.csv"}, target_column : {"y"},
     outlier_detection : BOOLEAN, plots : Flags]
    \cup
    [report_path : {"reports/"}, data_path : {"data.csv"}, target_column : {"y"},
     outlier_detection : BOOLEAN, plots : Flags,
     id_columns : {<<>>, <<"id", "zz">>}]

Nums(vs) == [i \in DOMAIN vs |-> IF vs[i] = -1 THEN NaN ELSE Num(vs[i])]
Strs(vs) == [i \in DOMAIN vs |-> Str(vs[i])]

\* the columns a CSV file of four rows is made of; -1 stands for an empty field
FeatureColumns ==
    { Column("id", "int64", Nums(<<1, 2, 3, 4>>)),
      Column("k", "int64", Nums(<<1, 1, 2, 2>>)),
      Column("b", "float64", Nums(<<1, -1, -1, 3>>)),
      Column("c", "object", Strs(<<"u", "v", "u", "v">>)) }
TargetColumns ==
    { Column("y", "int64", Nums(<<0, 0, 1, 1>>)),
      Column("y", "int64", Nums(<<0, 1, 1, 1>>)),
      Column("y", "int64", Nums(<<0, 1, 2, 2>>)),
      Column("y", "object", Strs(<<"l", "m", "h", "h">>)) }

UniqueNames(table) ==
    \A i, j \in DOMAIN table : table[i].name = table[j].name => i = j

\* the tables read_csv can return: one to MaxCols columns, names unique
CsvTables ==
    {t \in UNION {[1..m -> FeatureColumns \cup TargetColumns] : m \in 1..MaxCols} :
        UniqueNames(t)}

-----------------------------------------------------------------------------
(* Bookkeeping shared by the steps *)

Info(msg, args) == [level |-> "info", msg |-> msg, args |-> args]
Warning(msg, args) == [level |-> "warning", msg |-> msg, args |-> args]
Error(msg, args) == [level |-> "error", msg |-> msg, args |-> args]

\* a file written (or overwritten) under its path
WriteFile(fs, path, content) ==
    [f \in DOMAIN fs \cup {path} |-> IF f = path THEN content ELSE fs[f]]
\* several files written, name -> content
WriteFiles(fs, new) ==
    [f \in DOMAIN fs \cup DOMAIN new |-> IF f \in DOMAIN new THEN new[f] ELSE fs[f]]
NoFiles == [f \in {} |-> None]

\* the mutant: two steps of run() in the other order
RunOrderSwapped ==
    << "load_data", "drop_id_columns", "duplicate_analysis", "missing_value_analysis",
       "classify_columns", "distribution_plots", "target_analysis",
       "correlation_analysis", "feature_target_correlation",
       "categorical_statistical_tests", "outlier_analysis", "generate_sweetviz" >>
\* the mutant: the identifier columns dropped only after the classification
RunOrderDropLate ==
    << "load_data", "missing_value_analysis", "duplicate_analysis",
       "classify_columns", "drop_id_columns", "distribution_plots", "target_analysis",
       "correlation_analysis", "feature_target_correlation",
       "categorical_statistical_tests", "outlier_analysis", "generate_sweetviz" >>
\* the calls of run(), in order
RunOrder ==
    << "load_data", "drop_id_columns", "missing_value_analysis", "duplicate_analysis",
       "classify_columns", "distribution_plots", "target_analysis",
       "correlation_analysis", "feature_target_correlation",
       "categorical_statistical_tests", "outlier_analysis", "generate_sweetviz" >>

StepIndex(step) == CHOOSE i \in DOMAIN RunOrder : RunOrder[i] = step
After(step) ==
    IF StepIndex(step) = Len(RunOrder) THEN "completed" ELSE RunOrder[StepIndex(step) + 1]

\* the step is entered
Enter(step) == pc = step /\ started' = Append(started, step)
\* the step returns and run() goes on to its next line
Return(step) == returned' = Append(returned, step) /\ pc' = After(step)
\* the step raises: nothing in run() catches it
Abort == pc' = "aborted" /\ UNCHANGED returned

-----------------------------------------------------------------------------
(* Steps 1-5 of run() *)

\* pd.read_csv raises when the file cannot be read; nothing catches it
load_data ==
    /\ Enter("load_data")
    /\ IF csv = NoFile
       THEN /\ log' = Append(log, Info("Loading dataset", <<>>))
            /\ Abort
            /\ UNCHANGED df
       ELSE /\ df' = Frame(csv.table)
            /\ log' = log \o << Info("Loading dataset", <<>>),
                                Info("Dataset shape", <<NRows(csv.table), Len(csv.table)>>) >>
            /\ Return("load_data")
    /\ UNCHANGED <<config, csv, num_cols, cat_cols, files, call>>

\* self.config.get("id_columns", [])
IdColumns(cfg) == IF "id_columns" \in DOMAIN cfg THEN cfg.id_columns ELSE <<>>

\* the mutant: errors="raise", the default of DataFrame.drop
DropColumnsStrict(table, ids) ==
    LET keep(col) == ~IsMember(col.name, ids)
    IN  IF \A i \in DOMAIN ids : HasColumn(table, ids[i])
        THEN Frame(SelectSeq(table, keep))
        ELSE Raised("KeyError")
\* DataFrame.drop(columns=ids, errors="ignore"): the columns not named, in order
DropColumns(table, ids) ==
    LET keep(col) == ~IsMember(col.name, ids)
    IN  Frame(SelectSeq(table, keep))

drop_id_columns ==
    /\ Enter("drop_id_columns")
    /\ LET ids == IdColumns(config)
           kept == DropColumns(df.cols, ids)
       IN  IF kept.k = "raise"
           THEN Abort /\ UNCHANGED <<df, log>>
           ELSE /\ df' = kept
                /\ log' = Append(log, Info("ID columns removed", <<>>))
                /\ Return("drop_id_columns")
    /\ UNCHANGED <<config, csv, num_cols, cat_cols, files, call>>

\* the number of missing cells of a column
CountNa(cells) == Cardinality({i \in DOMAIN cells : IsNaN(cells[i])})

\* df.isnull().mean() restricted to the ratios > 0: (column, ratio) in column order
MissingRatios(table) ==
    LET some(col) == CountNa(col.values) > 0
        hit == SelectSeq(table, some)
    IN  [i \in DOMAIN hit |-> <<hit[i].name, Rat(CountNa(hit[i].values), Len(hit[i].values))>>]

missing_value_analysis ==
    /\ Enter("missing_value_analysis")
    /\ files' = WriteFile(files, config.report_path \o "missing_values.csv",
                          MissingRatios(df.cols))
    /\ Return("missing_value_analysis")
    /\ UNCHANGED <<config, csv, df, num_cols, cat_cols, log, call>>

RowOf(table, i) == [c \in DOMAIN table |-> table[c].values[i]]
\* df.duplicated().sum(): rows equal to an earlier row (none in a frame without columns)
Duplicates(table) ==
    IF table = <<>> THEN 0
    ELSE Cardinality({i \in 1..NRows(table) :
                        \E j \in 1..(i - 1) : RowOf(table, j) = RowOf(table, i)})

duplicate_analysis ==
    /\ Enter("duplicate_analysis")
    /\ log' = Append(log, Info("Duplicate rows", <<Duplicates(df.cols)>>))
    /\ Return("duplicate_analysis")
    /\ UNCHANGED <<config, csv, df, num_cols, cat_cols, files, call>>

classify_columns_step ==
    /\ Enter("classify_columns")
    /\ LET lists == classify_columns(df.cols)
       IN  /\ num_cols' = List(lists[1])
           /\ cat_cols' = List(lists[2])
    /\ Return("classify_columns")
    /\ UNCHANGED <<config, csv, df, files, log, call>>

-----------------------------------------------------------------------------
(* Steps 6-12 of run() *)

Path(cfg, name) == cfg.report_path \o name

\* one savefig per numeric column
DistributionPlots(cfg, table, cols) ==
    [f \in {Path(cfg, cols[i] \o "_distribution.png") : i \in DOMAIN cols} |->
        [plot |-> "histplot"]]

distribution_plots ==
    /\ Enter("distribution_plots")
    /\ IF ~config.plots.distribution
       THEN UNCHANGED files
       ELSE files' = WriteFiles(files, DistributionPlots(config, df.cols, num_cols.items))
    /\ Return("distribution_plots")
    /\ UNCHANGED <<config, csv, df, num_cols, cat_cols, log, call>>

\* Series.unique(): the distinct cells in order of first appearance
RECURSIVE Unique(_, _)
Unique(cells, seen) ==
    IF cells = <<>> THEN <<>>
    ELSE IF Head(cells) \in seen THEN Unique(Tail(cells), seen)
    ELSE <<Head(cells)>> \o Unique(Tail(cells), seen \cup {Head(cells)})

\* df[df[target] == g][col].dropna(): a missing g equals no cell
Group(table, target, g, col) ==
    LET t == GetColumn(table, target).values
        c == GetColumn(table, col).values
        picked(i) == ~IsNaN(g) /\ t[i] = g
        RECURSIVE take(_)
        take(i) ==
            IF i > Len(c) THEN <<>>
            ELSE IF picked(i) /\ ~IsNaN(c[i]) THEN <<c[i].v>> \o take(i + 1)
            ELSE take(i + 1)
    IN  take(1)

\* the p-value of scipy's ttest_ind, kept symbolic
TTestInd(group1, group2) == [k |-> "p_ttest", a |-> group1, b |-> group2]

\* the loop of target_analysis over the numeric columns: the rows appended to
\* stats_results and the plots saved, until cohens_d raises
RECURSIVE TargetLoop(_, _, _, _, _)
TargetLoop(table, target, g1, g2, cols) ==
    IF cols = <<>> THEN [rows |-> <<>>, plots |-> <<>>, raised |-> FALSE]
    ELSE IF Head(cols) = target THEN TargetLoop(table, target, g1, g2, Tail(cols))
    ELSE LET col == Head(cols)
             group1 == Group(table, target, g1, col)
             group2 == Group(table, target, g2, col)
             p_value == TTestInd(group1, group2)
             effect_size == cohens_d(group1, group2)
             rest == TargetLoop(table, target, g1, g2, Tail(cols))
         IN  IF effect_size.k = "raise"
             THEN [rows |-> <<>>, plots |-> <<>>, raised |-> TRUE]
             ELSE [rows |-> <<[Feature |-> col, p_value |-> p_value,
                               Cohens_d |-> effect_size]>> \o rest.rows,
                   plots |-> <<col>> \o rest.plots,
                   raised |-> rest.raised]

TargetPlots(cfg, cols) ==
    [f \in {Path(cfg, cols[i] \o "_vs_target.png") : i \in DOMAIN cols} |->
        [plot |-> "boxplot"]]

\* len(unique_groups) != 2 is the step's only precondition check
IsBinary(unique_groups) == Len(unique_groups) = 2

target_analysis ==
    /\ Enter("target_analysis")
    /\ LET target == config.target_column
       IN  IF ~config.plots.target_analysis
           THEN Return("target_analysis") /\ UNCHANGED <<files, log>>
           ELSE IF ~HasColumn(df.cols, target)
           THEN Abort /\ UNCHANGED <<files, log>>
           ELSE LET unique_groups == Unique(GetColumn(df.cols, target).values, {})
                IN  IF ~IsBinary(unique_groups)
                    THEN /\ log' = Append(log, Warning("Cohen's D requires binary target.", <<>>))
                         /\ Return("target_analysis")
                         /\ UNCHANGED files
                    ELSE LET r == TargetLoop(df.cols, target, unique_groups[1],
                                             unique_groups[2], num_cols.items)
                         IN  IF r.raised
                             THEN /\ files' = WriteFiles(files, TargetPlots(config, r.plots))
                                  /\ Abort
                                  /\ UNCHANGED log
                             ELSE /\ files' = WriteFile(
                                        WriteFiles(files, TargetPlots(config, r.plots)),
                                        Path(config, "ttest_effectsize_results.csv"), r.rows)
                                  /\ Return("target_analysis")
                                  /\ UNCHANGED log
    /\ UNCHANGED <<config, csv, df, num_cols, cat_cols, call>>

correlation_analysis ==
    /\ Enter("correlation_analysis")
    /\ IF ~config.plots.correlation
       THEN UNCHANGED files
       ELSE files' = WriteFile(files, Path(config, "correlation.png"),
                               [plot |-> "heatmap", of |-> num_cols.items])
    /\ Return("correlation_analysis")
    /\ UNCHANGED <<config, csv, df, num_cols, cat_cols, log, call>>

\* the columns of df.corr(numeric_only=True)
CorrColumns(table) ==
    LET keep(col) == IsNumericOnlyDtype(col.dtype)
    IN  Columns(SelectSeq(table, keep))

\* df.corr(numeric_only=True)[target].drop(target): KeyError when the target is
\* not among the numeric columns
TargetCorrelation(table, target) ==
    LET others(name) == name # target
    IN  IF IsMember(target, CorrColumns(table))
        THEN List(SelectSeq(CorrColumns(table), others))
        ELSE Raised("KeyError")

feature_target_correlation ==
    /\ Enter("feature_target_correlation")
    /\ LET corr == TargetCorrelation(df.cols, config.target_column)
       IN  IF corr.k = "raise"
           THEN Abort /\ UNCHANGED files
           ELSE /\ files' = WriteFile(files, Path(config, "target_correlation.png"),
                                      [plot |-> "barplot", of |-> corr.items])
                /\ Return("feature_target_correlation")
    /\ UNCHANGED <<config, csv, df, num_cols, cat_cols, log, call>>

\* the p-value of scipy's chi2_contingency on the cross-tabulation, kept symbolic
Chi2P(col, target) == [k |-> "p_chi2", rows |-> col, cols |-> target]

CategoricalPlots(cfg, cols) ==
    [f \in {Path(cfg, cols[i] \o "_categorical.png") : i \in DOMAIN cols} |->
        [plot |-> "countplot"]]

categorical_statistical_tests ==
    /\ Enter("categorical_statistical_tests")
    /\ LET target == config.target_column
           cols == cat_cols.items
       IN  IF cols # <<>> /\ ~HasColumn(df.cols, target)
           THEN Abort /\ UNCHANGED files
           ELSE /\ files' = WriteFile(
                        WriteFiles(files, CategoricalPlots(config, cols)),
                        Path(config, "chi2_results.csv"),
                        [i \in DOMAIN cols |->
                            [Feature |-> cols[i], Chi2_p_value |-> Chi2P(cols[i], target)]])
                /\ Return("categorical_statistical_tests")
    /\ UNCHANGED <<config, csv, df, num_cols, cat_cols, log, call>>

\* results[col] = detect_outliers(self.df[col]) for every numeric column
OutlierCounts(table, cols) ==
    [i \in DOMAIN cols |-> <<cols[i], detect_outliers(GetColumn(table, cols[i]).values)>>]

\* the mutant: the flag is not consulted
OutlierGateIgnored(cfg) == TRUE
\* if not self.config["outlier_detection"]: return
OutlierGate(cfg) == cfg.outlier_detection

outlier_analysis ==
    /\ Enter("outlier_analysis")
    /\ IF ~OutlierGate(config)
       THEN UNCHANGED files
       ELSE files' = WriteFile(files, Path(config, "outlier_counts.csv"),
                               OutlierCounts(df.cols, num_cols.items))
    /\ Return("outlier_analysis")
    /\ UNCHANGED <<config, csv, df, num_cols, cat_cols, log, call>>

\* what the report generator does: it works, or sv.analyze or show_html raises
SweetvizOutcomes == {"ok", "analyze raises", "show_html raises"}

\* the mutant: no try/except around the report generator
SweetvizUncaught(outcome) ==
    IF outcome = "ok"
    THEN /\ files' = WriteFile(files, Path(config, "sweetviz_report.html"),
                               [report |-> "sweetviz"])
         /\ Return("generate_sweetviz")
         /\ UNCHANGED log
    ELSE Abort /\ UNCHANGED <<files, log>>
\* try: analyze, show_html; except Exception: logger.error
SweetvizCaught(outcome) ==
    /\ IF outcome = "ok"
       THEN /\ files' = WriteFile(files, Path(config, "sweetviz_report.html"),
                                  [report |-> "sweetviz"])
            /\ UNCHANGED log
       ELSE /\ log' = Append(log, Error("Sweetviz failed", <<outcome>>))
            /\ UNCHANGED files
    /\ Return("generate_sweetviz")

generate_sweetviz ==
    /\ Enter("generate_sweetviz")
    /\ \E outcome \in SweetvizOutcomes : SweetvizCaught(outcome)
    /\ UNCHANGED <<config, csv, df, num_cols, cat_cols, call>>

\* the last line of run()
completed ==
    /\ pc = "completed"
    /\ log' = Append(log, Info("EDA Pipeline Completed", <<>>))
    /\ pc' = "done"
    /\ UNCHANGED <<config, csv, df, num_cols, cat_cols, files, started, returned, call>>

-----------------------------------------------------------------------------
(* Direct calls of the functions of utils.py *)

Idle == [fn |-> "none", args |-> <<>>, ret |-> None]
Pending == [k |-> "pending"]
Returns(v) == [k |-> "return", v |-> v]

\* the dtypes of the columns handed to classify_columns
ClassifyDtypes == {"int64", "float64", "object", "bool", "datetime64[ns]"}
ColumnNames == <<"p", "q", "r", "s", "t", "u">>
ClassifyArgs ==
    {[i \in DOMAIN dts |-> Column(ColumnNames[i], dts[i], <<>>)] :
        dts \in SeqsUpTo(ClassifyDtypes, MaxClassifyCols)}

SeriesCells == {NaN} \cup {Num(v) : v \in 0..MaxVal}
SpecExample == Nums(<<1, 2, 3, 4, 5, 100>>)
OutlierArgs == SeqsUpTo(SeriesCells, MaxSeries) \cup {SpecExample}

Samples == SeqsUpTo(0..MaxSample, MaxGroup)

Calls ==
    {[fn |-> "classify_columns", args |-> <<t>>, ret |-> Pending] : t \in ClassifyArgs}
    \cup {[fn |-> "detect_outliers", args |-> <<s>>, ret |-> Pending] : s \in OutlierArgs}
    \cup {[fn |-> "cohens_d", args |-> <<a, b>>, ret |-> Pending] : a \in Samples, b \in Samples}

call_classify_columns ==
    /\ call.fn = "classify_columns" /\ call.ret = Pending
    /\ call' = [call EXCEPT !.ret = Returns(classify_columns(call.args[1]))]
    /\ UNCHANGED <<pc, config, csv, df, num_cols, cat_cols, files, log, started, returned>>

call_detect_outliers ==
    /\ call.fn = "detect_outliers" /\ call.ret = Pending
    /\ call' = [call EXCEPT !.ret = Returns(detect_outliers(call.args[1]))]
    /\ UNCHANGED <<pc, config, csv, df, num_cols, cat_cols, files, log, started, returned>>

call_cohens_d ==
    /\ call.fn = "cohens_d" /\ call.ret = Pending
    /\ LET d == cohens_d(call.args[1], call.args[2])
       IN  call' = [call EXCEPT !.ret = IF d.k = "raise" THEN d ELSE Returns(d)]
    /\ UNCHANGED <<pc, config, csv, df, num_cols, cat_cols, files, log, started, returned>>

-----------------------------------------------------------------------------
(* The specification *)

\* a pipeline object after __init__, its run() about to start
InitRun ==
    /\ pc = RunOrder[1]
    /\ config \in Configs
    /\ csv \in {NoFile} \cup {CsvFile(t) : t \in CsvTables}
    /\ df = None
    /\ num_cols = Unset
    /\ cat_cols = Unset
    /\ files = NoFiles
    /\ log = <<>>
    /\ started = <<>>
    /\ returned = <<>>
    /\ call = Idle

\* no pipeline object: a function of utils.py is about to be called
InitCall ==
    /\ pc = "none"
    /\ config = None
    /\ csv = NoFile
    /\ df = None
    /\ num_cols = Unset
    /\ cat_cols = Unset
    /\ files = NoFiles
    /\ log = <<>>
    /\ started = <<>>
    /\ returned = <<>>
    /\ call \in Calls

Init == InitRun \/ InitCall

Next ==
    \/ load_data
    \/ drop_id_columns
    \/ missing_value_analysis
    \/ duplicate_analysis
    \/ classify_columns_step
    \/ distribution_plots
    \/ target_analysis
    \/ correlation_analysis
    \/ feature_target_correlation
    \/ categorical_statistical_tests
    \/ outlier_analysis
    \/ generate_sweetviz
    \/ completed
    \/ call_classify_columns
    \/ call_detect_outliers
    \/ call_cohens_d

Spec == Init /\ [][Next]_vars

-----------------------------------------------------------------------------
(* Properties *)

InRun == pc # "none"
HasStarted(step) == IsMember(step, started)
HasReturned(step) == IsMember(step, returned)
Logged(entry) == IsMember(entry, log)
Written(name) == InRun /\ Path(config, name) \in DOMAIN files
\* every name a column or a configured identifier can have
AllNames == {c.name : c \in FeatureColumns \cup TargetColumns} \cup {"zz"}
SweetvizFailed == \E o \in SweetvizOutcomes \ {"ok"} : Logged(Error("Sweetviz failed", <<o>>))
CompletionLogged == Logged(Info("EDA Pipeline Completed", <<>>))

\* C1: once step 12 (generate_sweetviz) has been entered, the run is never
\* aborted: the step has returned, a report that was not written has its
\* failure logged as an error, and the completion message follows.
C1_SweetvizFailureNeverAborts ==
    HasStarted("generate_sweetviz") =>
        /\ HasReturned("generate_sweetviz")
        /\ pc \in {"completed", "done"}
        /\ (~Written("sweetviz_report.html") <=> SweetvizFailed)
        /\ (pc = "completed" => ENABLED completed)
        /\ (pc = "done" => CompletionLogged)

\* C1 witness: a run whose report generator failed and that logged completion
C1_Witness == pc = "done" /\ SweetvizFailed /\ CompletionLogged

\* the distinct values of the target column of the dataset
TargetValues == Unique(GetColumn(df.cols, config.target_column).values, {})
NonBinaryTargetAnalysed ==
    /\ InRun
    /\ HasStarted("target_analysis")
    /\ config.plots.target_analysis
    /\ HasColumn(df.cols, config.target_column)
    /\ Len(TargetValues) # 2

\* C2: with the target-analysis flag set and a target that does not have
\* exactly 2 distinct values, target_analysis logs a warning and writes neither
\* ttest_effectsize_results.csv nor any <col>_vs_target.png, and the run goes
\* through every later step to completion and writes sweetviz_report.html.
C2_NonBinaryTargetRunCompletes ==
    NonBinaryTargetAnalysed =>
        /\ Logged(Warning("Cohen's D requires binary target.", <<>>))
        /\ ~Written("ttest_effectsize_results.csv")
        /\ \A n \in AllNames : ~Written(n \o "_vs_target.png")
        /\ pc # "aborted"
        /\ (pc = "done" => Written("sweetviz_report.html"))

\* C3: a run is aborted only by a failure of loading; once the dataset is
\* loaded, no failure of a later step aborts the run (stated here for the input
\* files the interface describes, those that hold the target column).
C3_OnlyLoadAborts ==
    (pc = "aborted" /\ HasReturned("load_data"))
        => ~HasColumn(csv.table, config.target_column)

\* C4 (state part): a file of a flag-gated step exists only in a run whose flag is true
C4_NoArtifactWithoutFlag ==
    InRun =>
        /\ (~config.outlier_detection => ~Written("outlier_counts.csv"))
        /\ (~config.plots.distribution =>
                \A n \in AllNames : ~Written(n \o "_distribution.png"))
        /\ (~config.plots.target_analysis =>
                /\ ~Written("ttest_effectsize_results.csv")
                /\ \A n \in AllNames : ~Written(n \o "_vs_target.png"))
        /\ (~config.plots.correlation => ~Written("correlation.png"))

\* C4 (step part): a gated step whose flag is false changes nothing but the position
C4_GatedStepChangesNothing ==
    ( \/ (pc = "outlier_analysis" /\ ~config.outlier_detection)
      \/ (pc = "distribution_plots" /\ ~config.plots.distribution)
      \/ (pc = "target_analysis" /\ ~config.plots.target_analysis)
      \/ (pc = "correlation_analysis" /\ ~config.plots.correlation) )
    => /\ UNCHANGED <<df, num_cols, cat_cols, files, log>>
       /\ pc' = After(pc)

\* C4: an artifact of a flag-gated step (outlier_counts.csv, <col>_distribution.png,
\* <col>_vs_target.png, ttest_effectsize_results.csv, correlation.png) is written
\* only in runs whose flag is true; with the flag false the step leaves the
\* dataset, the classification and the output directory unchanged.
C4_GatedArtifactsOnlyWithFlag ==
    [](C4_NoArtifactWithoutFlag) /\ [][C4_GatedStepChangesNothing]_vars

\* C4 witness: a completed run with every flag false that wrote the ungated files
C4_Witness ==
    /\ pc = "done"
    /\ ~config.outlier_detection /\ ~config.plots.distribution
    /\ ~config.plots.target_analysis /\ ~config.plots.correlation
    /\ Written("chi2_results.csv") /\ Written("target_correlation.png")
    /\ Len(num_cols.items) > 1

\* C5: whatever id_columns is (absent, empty, naming columns that do not exist),
\* drop_id_columns returns; from then on the dataset holds exactly the columns
\* of the loaded table that id_columns does not name, with their rows, in the
\* table's order.
C5_DropIdColumnsTolerant ==
    (InRun /\ HasStarted("drop_id_columns")) =>
        /\ HasReturned("drop_id_columns")
        /\ \A i \in DOMAIN csv.table :
                (~IsMember(csv.table[i].name, IdColumns(config)))
                    <=> (\E j \in DOMAIN df.cols : df.cols[j] = csv.table[i])
        /\ \A j \in DOMAIN df.cols : \E i \in DOMAIN csv.table : df.cols[j] = csv.table[i]
        /\ \A j1, j2 \in DOMAIN df.cols : \A i1, i2 \in DOMAIN csv.table :
                (j1 < j2 /\ df.cols[j1] = csv.table[i1] /\ df.cols[j2] = csv.table[i2])
                    => i1 < i2

\* C5 witness: id_columns names a column of the table and one that does not
\* exist; the run is over, the first was dropped and the others were kept
C5_Witness ==
    /\ pc = "done"
    /\ IdColumns(config) = <<"id", "zz">>
    /\ HasColumn(csv.table, "id")
    /\ ~HasColumn(df.cols, "id")
    /\ Len(df.cols) = Len(csv.table) - 1
    /\ Len(df.cols) >= 2

\* the twelve steps in the declared order
DeclaredOrder ==
    << "load_data", "drop_id_columns", "missing_value_analysis", "duplicate_analysis",
       "classify_columns", "distribution_plots", "target_analysis",
       "correlation_analysis", "feature_target_correlation",
       "categorical_statistical_tests", "outlier_analysis", "generate_sweetviz" >>
Prefix(s, t) == Len(s) <= Len(t) /\ s = SubSeq(t, 1, Len(s))

\* C6: the steps start in the declared order, each at most once and each only
\* after the previous one has returned; none is revisited; the completion
\* message is logged only after step 12 has returned.
C6_StepsInDeclaredOrder ==
    /\ Prefix(started, DeclaredOrder)
    /\ Prefix(returned, started)
    /\ Len(started) <= Len(returned) + 1
    /\ (Len(started) = Len(returned) + 1 => pc = "aborted")
    /\ (pc \in Range(DeclaredOrder) => pc = DeclaredOrder[Len(started) + 1])
    /\ (CompletionLogged => returned = DeclaredOrder)

\* C6 witness: a run that went through all twelve steps
C6_Witness == pc = "done" /\ Len(started) = 12 /\ CompletionLogged

NumericDtypes == {"int64", "float64"}
TextDtypes == {"object"}
Occurrences(x, s) == Cardinality({i \in DOMAIN s : s[i] = x})
\* the names of s appear in the order they have in the table
InTableOrder(s, table) ==
    \A i, j \in DOMAIN s : \A a, b \in DOMAIN table :
        (i < j /\ table[a].name = s[i] /\ table[b].name = s[j]) => a < b

Quartile4(xs, q) ==
    LET h == (Len(xs) - 1) * q
        j == (h \div 4) + 1
        r == h % 4
    IN  IF r = 0 THEN 4 * xs[j]
        ELSE (4 - r) * xs[j] + r * xs[j + 1]
\* the values of series that are not missing
Present(series) == DropNa(series)
\* x lies strictly outside [Q1 - 1.5 IQR, Q3 + 1.5 IQR], in integers (times 8)
StrictlyOutside(x, xs) ==
    LET q1 == Quartile4(xs, 1)
        q3 == Quartile4(xs, 3)
    IN  \/ 8 * x < 2 * q1 - 3 * (q3 - q1)
        \/ 8 * x > 2 * q3 + 3 * (q3 - q1)

\* C8: detect_outliers returns the number of non-missing values strictly below
\* Q1 - 1.5 IQR or strictly above Q3 + 1.5 IQR, the quartiles interpolated
\* linearly over the non-missing values; missing values are never counted; the
\* result is 0 for an empty column and for a column of equal values, and 1 on
\* [1,2,3,4,5,100].
C8_OutlierCount ==
    (call.fn = "detect_outliers" /\ call.ret # Pending) =>
        LET series == call.args[1]
            xs == Sorted(Present(series))
            count == call.ret.v
        IN  /\ count = Cardinality({i \in DOMAIN xs : StrictlyOutside(xs[i], xs)})
            /\ count <= Len(xs)
            /\ (xs = <<>> => count = 0)
            /\ (Cardinality(Range(xs)) <= 1 => count = 0)
            /\ (series = SpecExample => count = 1)

\* C8 witness: a series with a missing value and exactly one outlier
C8_Witness ==
    /\ call.fn = "detect_outliers" /\ call.ret # Pending
    /\ \E i \in DOMAIN call.args[1] : IsNaN(call.args[1][i])
    /\ Len(Present(call.args[1])) >= 3
    /\ call.ret.v = 1

\* the sum of the squared deviations of g from its mean, times Len(g)
ScaledSS(g) == Len(g) * SumSq(g) - SumSeq(g) * SumSeq(g)
\* the pooled variance of two samples of which n1 + n2 > 2, as a rational
PooledVariance(g1, g2) ==
    Rat(Len(g2) * ScaledSS(g1) + Len(g1) * ScaledSS(g2),
        Len(g1) * Len(g2) * (Len(g1) + Len(g2) - 2))
MeanDifference(g1, g2) ==
    Rat(SumSeq(g1) * Len(g2) - SumSeq(g2) * Len(g1), Len(g1) * Len(g2))
\* the pooled standard deviation is zero: no value deviates from its sample's mean
PooledZero(g1, g2) ==
    (Len(g1) = 0 \/ ScaledSS(g1) = 0) /\ (Len(g2) = 0 \/ ScaledSS(g2) = 0)
\* d is the finite number (mean1 - mean2) / pooled_std
IsCohensD(d, g1, g2) ==
    /\ d.k = "surd"
    /\ d.num = MeanDifference(g1, g2)
    /\ d.rad = PooledVariance(g1, g2)

\* the rows of ttest_effectsize_results.csv record, for every numeric column but
\* the target and in their order, what cohens_d returns on the two groups
TargetRowsRecorded ==
    (/\ InRun /\ HasReturned("target_analysis") /\ config.plots.target_analysis
     /\ Len(TargetValues) = 2) =>
        LET target == config.target_column
            isFeature(name) == name # target
            features == SelectSeq(num_cols.items, isFeature)
            rows == files[Path(config, "ttest_effectsize_results.csv")]
        IN  /\ Written("ttest_effectsize_results.csv")
            /\ Len(rows) = Len(features)
            /\ \A i \in DOMAIN rows :
                  /\ rows[i].Feature = features[i]
                  /\ rows[i].Cohens_d =
                        cohens_d(Group(df.cols, target, TargetValues[1], features[i]),
                                 Group(df.cols, target, TargetValues[2], features[i]))
                  /\ Written(features[i] \o "_vs_target.png")

\* the statement of C9 as it was made: finite whenever n1 + n2 > 2 and the
\* pooled standard deviation is not zero
C9_FiniteWheneverPooledNonZero ==
    (call.fn = "cohens_d" /\ call.ret # Pending) =>
        LET g1 == call.args[1]
            g2 == call.args[2]
        IN  /\ call.ret.k = "return"
            /\ ((Len(g1) + Len(g2) <= 2 \/ PooledZero(g1, g2)) => ~IsFinite(call.ret.v))
            /\ ((Len(g1) + Len(g2) > 2 /\ ~PooledZero(g1, g2))
                    => IsCohensD(call.ret.v, g1, g2))

\* C9 (amended): cohens_d never raises; when a sample has fewer than two values
\* or the pooled standard deviation is 0 it returns not-a-number or an infinity,
\* which target_analysis records in the feature's row before going on to the
\* next numeric column; for every other pair of samples it returns the finite
\* value (mean1 - mean2) / pooled_std.
C9_CohensDNeverRaises ==
    /\ (call.fn = "cohens_d" /\ call.ret # Pending) =>
        LET g1 == call.args[1]
            g2 == call.args[2]
            degenerate == Len(g1) < 2 \/ Len(g2) < 2 \/ PooledZero(g1, g2)
        IN  /\ call.ret.k = "return"
            /\ (degenerate => call.ret.v.k \in {"nan", "inf"})
            /\ (Len(g1) + Len(g2) <= 2 => degenerate)
            /\ (~degenerate => IsCohensD(call.ret.v, g1, g2))
    /\ (InRun /\ HasStarted("target_analysis") /\ HasColumn(df.cols, config.target_column))
            => HasReturned("target_analysis")
    /\ TargetRowsRecorded

\* C9 witness: a run whose t-test file holds a not-a-number effect size in one
\* row and a finite one in a later row
C9_Witness ==
    /\ pc = "done"
    /\ Written("ttest_effectsize_results.csv")
    /\ LET rows == files[Path(config, "ttest_effectsize_results.csv")]
       IN  \E i, j \in DOMAIN rows :
              i < j /\ rows[i].Cohens_d.k = "nan" /\ IsFinite(rows[j].Cohens_d)

\* C10 (state part): the lists are unset until step 5 has returned; from then on
\* they are what classify_columns returns on the current dataset, and every name
\* in them is a column of it
C10_ListsMatchDataset ==
    InRun =>
        IF HasReturned("classify_columns")
        THEN /\ <<num_cols.items, cat_cols.items>> = classify_columns(df.cols)
             /\ \A n \in Range(num_cols.items) \cup Range(cat_cols.items) :
                    HasColumn(df.cols, n)
             /\ HasReturned("drop_id_columns")
        ELSE /\ num_cols = Unset /\ cat_cols = Unset
             /\ pc \notin { "distribution_plots", "target_analysis", "correlation_analysis",
                            "feature_target_correlation", "categorical_statistical_tests",
                            "outlier_analysis" }

\* C10 (step part): only step 5 sets the lists, and only steps 1 and 2 change the dataset
C10_OnlyClassifySetsLists ==
    /\ (num_cols' # num_cols \/ cat_cols' # cat_cols) =>
            (pc = "classify_columns" /\ num_cols = Unset /\ cat_cols = Unset)
    /\ df' # df => (pc \in {"load_data", "drop_id_columns"} /\ num_cols = Unset)

\* C10: the numeric and categorical lists are set exactly once, at step 5, after
\* the only column-removing step and before any step that reads them; no later
\* step changes the dataset's columns, so at steps 6-11 the lists name columns
\* of the dataset and equal what classify_columns returns on it.
C10_ClassificationStaysValid ==
    [](C10_ListsMatchDataset) /\ [][C10_OnlyClassifySetsLists]_vars

\* C10 witness: at step 11 of a run that dropped an identifier column, with
\* both lists non-empty
C10_Witness ==
    /\ pc = "outlier_analysis"
    /\ HasColumn(csv.table, "id") /\ ~HasColumn(df.cols, "id")
    /\ num_cols # Unset /\ cat_cols # Unset
    /\ num_cols.items # <<>> /\ cat_cols.items # <<>>

====
